---- MODULE Spec2Model ----
(***************************************************************************)
(* A model of gohttp's Request builder (request.go): the chained           *)
(* configuration methods, the seven verb methods and makeRequest, with the *)
(* three hook lists run as callbacks.  One builder is configured by at     *)
(* most MaxCalls chained calls and then consumed by one verb call; the     *)
(* call leaves its buffers read and its multipart writer closed, and the   *)
(* caller builds its next request on a new builder (NewRequest).           *)
(*                                                                         *)
(* Byte buffers, URLs and header values are strings.  A *bytes.Buffer is a *)
(* record [ref, bytes]: ref "nil" is the nil pointer, ref "buf" a buffer   *)
(* of its own holding bytes, ref "mp" the address of req.multipartBuffer,  *)
(* whose content is the variable multipartBuffer.                          *)
(***************************************************************************)
EXTENDS Naturals, Sequences, FiniteSets, TLC

VARIABLES
    pc,                 \* "config" | "before" | "after" | "errhooks" | "done" | "panic"
    calls,              \* chained configuration calls made so far
    client,             \* req.client
    formVals,           \* req.formVals
    multipartBuffer,    \* req.multipartBuffer
    writer,             \* req.writer: "nil" | "open" | "closed"
    queryVals,          \* req.queryVals
    headers,            \* req.headers
    contentType,        \* req.contentType
    basicUser,          \* req.basicUser
    basicPasswd,        \* req.basicPasswd
    beforeRequestHooks, \* req.beforeRequestHooks
    afterResponseHooks, \* req.afterResponseHooks
    errorHooks,         \* req.errorHooks
    ctx,                \* req.ctx: "nil" | "live" | "cancelled"
    verb,               \* makeRequest's verb
    url,                \* makeRequest's url argument
    payloads,           \* makeRequest's payloads argument
    i,                  \* position of the running hook loop
    request,            \* makeRequest's request (*http.Request)
    err,                \* makeRequest's err
    response,           \* makeRequest's response (the wrapper it returns)
    hookResp,           \* ExecuteAfterResponseHooks' parameter (its copy)
    result,             \* what the verb call returned
    log,                \* history: hook invocations and the client.Do call, in order
    lastEnc             \* history: the most recent body-encoding call

vars == <<pc, calls, client, formVals, multipartBuffer, writer, queryVals, headers,
          contentType, basicUser, basicPasswd, beforeRequestHooks,
          afterResponseHooks, errorHooks, ctx, verb, url, payloads, i, request,
          err, response, hookResp, result, log, lastEnc>>

builder == <<client, formVals, multipartBuffer, writer, queryVals, headers,
             contentType, basicUser, basicPasswd, beforeRequestHooks,
             afterResponseHooks, errorHooks, ctx>>

call == <<verb, url, payloads, i, request, err, response, hookResp, result, log>>

(***************************************************************************)
(* Bound.                                                                  *)
(***************************************************************************)
MaxCalls == 3

(***************************************************************************)
(* Values.                                                                 *)
(***************************************************************************)
EmptyMap == [k \in {} |-> ""]

NilBuffer == [ref |-> "nil", bytes |-> ""]

NewBuffer(data) == [ref |-> "buf", bytes |-> data]

MultipartBufferRef == [ref |-> "mp", bytes |-> ""]

NoClient == [made |-> FALSE, transport |-> "", timeout |-> 0, jar |-> ""]

NoRequest == [built |-> FALSE, method |-> "", url |-> "", body |-> "",
              header |-> EmptyMap, host |-> "", ctx |-> ""]

NilResponse == [resp |-> "nil"]

NoResult == [returned |-> FALSE, isNil |-> TRUE, resp |-> NilResponse, err |-> "nil"]

NoEnc == [method |-> "none", ct |-> "", bytes |-> ""]

Boundary == "B"

(***************************************************************************)
(* Inputs the callers draw from.                                           *)
(***************************************************************************)
GoodURL == "http://example.com/p"

BadURL == "://bad"

URLs == {GoodURL, BadURL}

JSONInputs == {("x" :> "1"), ("c" :> "chan")}

FormInputs == {("a" :> "1")}

QueryInputs == {EmptyMap, ("b" :> "x y") @@ ("a" :> "1")}

BodyInputs == {"raw"}

TextInputs == {"hello"}

HeaderInputs ==
    { EmptyMap,
      ("Content-Type" :> "application/xml"),
      ("content-type" :> "text/csv") @@ ("Content-Type" :> "application/xml"),
      ("authorization" :> "Bearer t"),
      ("Host" :> "virtual.example") @@ ("X-Trace" :> "1") }

Credentials == {<<"u", "p">>, <<"", "p">>, <<"u", "">>}

FieldInputs == {("k" :> "v")}

Files == ("a.txt" :> "AAA") @@ ("b.txt" :> "BBB")

UploadInputs == {<<"f", "a.txt">>, <<"f", "missing.txt">>}

ReaderParam == [FieldName |-> "r", FileName |-> "r.bin", FileBody |-> "RRR"]

ReaderParam2 == [FieldName |-> "s", FileName |-> "s.bin", FileBody |-> "SSS"]

UploadsInputs == {("u1" :> "a.txt") @@ ("u2" :> "b.txt")}

ReaderLists == {<<ReaderParam, ReaderParam2>>}

BeforeHooks == {"bNil", "bErr", "bText"}

AfterHooks == {"aNil", "aMut"}

ErrorHooks == {"e1", "e2"}

Contexts == {"live", "cancelled"}

NetOutcomes == {"ok", "refused"}

ErrParse == "parse: missing protocol scheme"

ErrDial == "dial tcp: connection refused"

ErrCanceled == "context canceled"

ErrHook == "hook failed"

(***************************************************************************)
(* Library functions the builder calls.                                    *)
(***************************************************************************)
\* The orders in which a Go range statement may visit the keys of a map.
Orders(S) ==
    { o \in [1..Cardinality(S) -> S] : \A k \in S : \E n \in DOMAIN o : o[n] = k }

\* The keys the inputs use, in sorted order.
KeyOrder == <<"a", "b", "c", "x">>

SortedKeys(m) == SelectSeq(KeyOrder, LAMBDA k : k \in DOMAIN m)

\* url.QueryEscape
QueryEscape(s) == CASE s = "x y" -> "x+y" [] OTHER -> s

RECURSIVE JoinPairs(_, _, _, _, _)
JoinPairs(keys, m, q, eq, sep) ==
    IF keys = <<>> THEN ""
    ELSE LET k == Head(keys)
             rest == JoinPairs(Tail(keys), m, q, eq, sep)
         IN  q \o k \o q \o eq \o m[k]
                \o (IF Tail(keys) = <<>> THEN "" ELSE sep \o rest)

\* url.Values.Encode: keys sorted, key and value escaped, "&"-joined
Encode(m) ==
    LET esc == [k \in DOMAIN m |-> QueryEscape(m[k])]
    IN  JoinPairs(SortedKeys(m), esc, "", "=", "&")

\* json.Marshal of a map: keys sorted and quoted; a channel value cannot be
\* encoded
Marshal(m) ==
    IF \E k \in DOMAIN m : m[k] = "chan"
    THEN [ok |-> FALSE, data |-> ""]
    ELSE [ok |-> TRUE,
          data |-> "{" \o JoinPairs(SortedKeys(m), m, "\"", ":", ",") \o "}"]

\* textproto.CanonicalMIMEHeaderKey
CanonicalMIMEHeaderKey(k) ==
    CASE k = "content-type" -> "Content-Type"
      [] k = "authorization" -> "Authorization"
      [] k = "host" -> "Host"
      [] OTHER -> k

\* http.Header.Set
HeaderSet(h, k, v) ==
    LET c == CanonicalMIMEHeaderKey(k)
    IN  [x \in DOMAIN h \cup {c} |-> IF x = c THEN v ELSE h[x]]

\* http.Header.Get: "" when the key is absent
HeaderGet(h, k) ==
    LET c == CanonicalMIMEHeaderKey(k)
    IN  IF c \in DOMAIN h THEN h[c] ELSE ""

\* base64.StdEncoding of "user:password"
Base64(user, passwd) ==
    CASE user = "u" /\ passwd = "p" -> "dTpw"
      [] user = "u" /\ passwd = "" -> "dTo="
      [] user = "" /\ passwd = "p" -> "OnA="
      [] OTHER -> "Og=="

\* (*http.Request).SetBasicAuth
SetBasicAuth(h, user, passwd) ==
    HeaderSet(h, "Authorization", "Basic " \o Base64(user, passwd))

\* multipart.Writer.WriteField
FieldPart(k, v) == "--" \o Boundary \o "{" \o k \o "}" \o v

\* multipart.Writer.CreateFormFile followed by io.Copy
FilePart(name, file, content) ==
    "--" \o Boundary \o "{" \o name \o ";" \o file \o "}" \o content

\* multipart.Writer.Close: the trailing boundary
Trailer == "--" \o Boundary \o "--"

\* multipart.Writer.FormDataContentType
FormDataContentType == "multipart/form-data; boundary=" \o Boundary

\* url.Parse as http.NewRequest uses it: the targets it accepts, with their host
ParseURL(target) ==
    IF \E m \in QueryInputs :
          target = GoodURL \/ target = GoodURL \o "?" \o Encode(m)
    THEN [ok |-> TRUE, host |-> "example.com"]
    ELSE [ok |-> FALSE, host |-> ""]

\* strings.ToUpper on a method name
ToUpper(v) ==
    CASE v = "get" -> "GET" [] v = "post" -> "POST" [] OTHER -> v

\* (*http.Client).Do: a request whose context is done fails with the context's
\* error; otherwise the network decides
ClientDo(r, net) ==
    IF r.ctx = "cancelled" THEN [resp |-> "nil", err |-> ErrCanceled]
    ELSE IF net = "ok" THEN [resp |-> "200 OK", err |-> "nil"]
    ELSE [resp |-> "nil", err |-> ErrDial]

(***************************************************************************)
(* The body encoders, as the fields they assign.  enc is the history       *)
(* record of the call.                                                     *)
(***************************************************************************)
EncJSON(data) ==
    [formVals |-> NewBuffer(data), contentType |-> "application/json",
     enc |-> [method |-> "JSON", ct |-> "application/json", bytes |-> data]]

EncFormData(m) ==
    [formVals |-> NewBuffer(Encode(m)),
     contentType |-> "application/x-www-form-urlencoded",
     enc |-> [method |-> "FormData", ct |-> "application/x-www-form-urlencoded",
              bytes |-> Encode(m)]]

EncBody(b) ==
    [formVals |-> NewBuffer(b), contentType |-> "application/octet-stream",
     enc |-> [method |-> "Body", ct |-> "application/octet-stream", bytes |-> b]]

EncText(t) ==
    [formVals |-> NewBuffer(t), contentType |-> "text/plain",
     enc |-> [method |-> "Text", ct |-> "text/plain", bytes |-> t]]

\* The history record of a call of one of the multipart methods.
EncMultipart == [method |-> "multipart", ct |-> FormDataContentType, bytes |-> ""]

(***************************************************************************)
(* Construction.                                                           *)
(***************************************************************************)
Init ==
    /\ pc = "config"
    /\ calls = 0
    /\ client = NoClient
    /\ formVals = NilBuffer
    /\ multipartBuffer = ""
    /\ writer = "nil"
    /\ queryVals = ""
    /\ headers = EmptyMap
    /\ contentType = ""
    /\ basicUser = ""
    /\ basicPasswd = ""
    /\ beforeRequestHooks = <<>>
    /\ afterResponseHooks = <<>>
    /\ errorHooks = <<>>
    /\ ctx = "nil"
    /\ verb = ""
    /\ url = ""
    /\ payloads = NilBuffer
    /\ i = 0
    /\ request = NoRequest
    /\ err = "nil"
    /\ response = NilResponse
    /\ hookResp = NilResponse
    /\ result = NoResult
    /\ log = <<>>
    /\ lastEnc = NoEnc

\* A chained configuration call is made on a builder no verb call has consumed.
Configuring ==
    /\ pc = "config"
    /\ calls < MaxCalls
    /\ calls' = calls + 1

(***************************************************************************)
(* Configuration methods.                                                  *)
(***************************************************************************)
JSON ==
    /\ Configuring
    /\ \E jsonBody \in JSONInputs :
         LET m == Marshal(jsonBody)
         IN  IF m.ok
             THEN /\ formVals' = EncJSON(m.data).formVals
                  /\ contentType' = EncJSON(m.data).contentType
                  /\ lastEnc' = EncJSON(m.data).enc
                  /\ pc' = pc
             ELSE /\ pc' = "panic"
                  /\ UNCHANGED <<formVals, contentType, lastEnc>>
    /\ UNCHANGED <<client, multipartBuffer, writer, queryVals, headers, basicUser,
                   basicPasswd, beforeRequestHooks, afterResponseHooks,
                   errorHooks, ctx>>
    /\ UNCHANGED call

FormData ==
    /\ Configuring
    /\ \E formValues \in FormInputs :
         /\ formVals' = EncFormData(formValues).formVals
         /\ contentType' = EncFormData(formValues).contentType
         /\ lastEnc' = EncFormData(formValues).enc
    /\ UNCHANGED <<pc, client, multipartBuffer, writer, queryVals, headers,
                   basicUser, basicPasswd, beforeRequestHooks,
                   afterResponseHooks, errorHooks, ctx>>
    /\ UNCHANGED call

Body ==
    /\ Configuring
    /\ \E formValues \in BodyInputs :
         /\ formVals' = EncBody(formValues).formVals
         /\ contentType' = EncBody(formValues).contentType
         /\ lastEnc' = EncBody(formValues).enc
    /\ UNCHANGED <<pc, client, multipartBuffer, writer, queryVals, headers,
                   basicUser, basicPasswd, beforeRequestHooks,
                   afterResponseHooks, errorHooks, ctx>>
    /\ UNCHANGED call

Text ==
    /\ Configuring
    /\ \E formValues \in TextInputs :
         /\ formVals' = EncText(formValues).formVals
         /\ contentType' = EncText(formValues).contentType
         /\ lastEnc' = EncText(formValues).enc
    /\ UNCHANGED <<pc, client, multipartBuffer, writer, queryVals, headers,
                   basicUser, basicPasswd, beforeRequestHooks,
                   afterResponseHooks, errorHooks, ctx>>
    /\ UNCHANGED call

Query ==
    /\ Configuring
    /\ \E formValues \in QueryInputs :
         /\ queryVals' = Encode(formValues)
         /\ contentType' = "application/x-www-form-urlencoded"
    /\ UNCHANGED <<pc, client, formVals, multipartBuffer, writer, headers,
                   basicUser, basicPasswd, beforeRequestHooks,
                   afterResponseHooks, errorHooks, ctx, lastEnc>>
    /\ UNCHANGED call

Headers ==
    /\ Configuring
    /\ \E headerVals \in HeaderInputs : headers' = headerVals
    /\ UNCHANGED <<pc, client, formVals, multipartBuffer, writer, queryVals,
                   contentType, basicUser, basicPasswd, beforeRequestHooks,
                   afterResponseHooks, errorHooks, ctx, lastEnc>>
    /\ UNCHANGED call

BasicAuth ==
    /\ Configuring
    /\ \E c \in Credentials :
         /\ basicUser' = c[1]
         /\ basicPasswd' = c[2]
    /\ UNCHANGED <<pc, client, formVals, multipartBuffer, writer, queryVals,
                   headers, contentType, beforeRequestHooks, afterResponseHooks,
                   errorHooks, ctx, lastEnc>>
    /\ UNCHANGED call

(***************************************************************************)
(* Multipart methods.  st is [ok, mp]: whether no panic has happened, and  *)
(* the content of multipartBuffer.                                         *)
(***************************************************************************)
\* if req.writer == nil { req.writer = multipart.NewWriter(&req.multipartBuffer) }
EnsureWriter(w) == IF w = "nil" THEN "open" ELSE w

RECURSIVE WriteFields(_, _, _)
WriteFields(mp, formData, order) ==
    IF order = <<>> THEN mp
    ELSE WriteFields(mp \o FieldPart(Head(order), formData[Head(order)]),
                     formData, Tail(order))

\* Upload's file part: os.Open fails on a file that does not exist
UploadPart(st, name, file) ==
    IF ~st.ok \/ file \notin DOMAIN Files
    THEN [ok |-> FALSE, mp |-> st.mp]
    ELSE [ok |-> TRUE, mp |-> st.mp \o FilePart(name, file, Files[file])]

\* UploadFromReader's file part
ReaderPart(st, param) ==
    [ok |-> st.ok,
     mp |-> st.mp \o FilePart(param.FieldName, param.FileName, param.FileBody)]

RECURSIVE UploadEach(_, _, _)
UploadEach(st, files, order) ==
    IF order = <<>> THEN st
    ELSE UploadEach(UploadPart(st, Head(order), files[Head(order)]),
                    files, Tail(order))

RECURSIVE UploadEachReader(_, _)
UploadEachReader(st, params) ==
    IF params = <<>> THEN st
    ELSE UploadEachReader(ReaderPart(st, Head(params)), Tail(params))

\* What Upload and UploadFromReader assign once their part is written; a panic
\* leaves the fields as they were.
Uploaded(st) ==
    IF st.ok
    THEN /\ multipartBuffer' = st.mp
         /\ contentType' = FormDataContentType
         /\ formVals' = MultipartBufferRef
         /\ lastEnc' = EncMultipart
         /\ pc' = pc
    ELSE /\ multipartBuffer' = st.mp
         /\ pc' = "panic"
         /\ UNCHANGED <<contentType, formVals, lastEnc>>

MultipartFormData ==
    /\ Configuring
    /\ writer' = EnsureWriter(writer)
    /\ \E formData \in FieldInputs : \E order \in Orders(DOMAIN formData) :
         multipartBuffer' = WriteFields(multipartBuffer, formData, order)
    /\ lastEnc' = EncMultipart
    /\ UNCHANGED <<pc, client, formVals, queryVals, headers, contentType,
                   basicUser, basicPasswd, beforeRequestHooks,
                   afterResponseHooks, errorHooks, ctx>>
    /\ UNCHANGED call

Upload ==
    /\ Configuring
    /\ writer' = EnsureWriter(writer)
    /\ \E in \in UploadInputs :
         Uploaded(UploadPart([ok |-> TRUE, mp |-> multipartBuffer], in[1], in[2]))
    /\ UNCHANGED <<client, queryVals, headers, basicUser, basicPasswd,
                   beforeRequestHooks, afterResponseHooks, errorHooks, ctx>>
    /\ UNCHANGED call

UploadFromReader ==
    /\ Configuring
    /\ writer' = EnsureWriter(writer)
    /\ Uploaded(ReaderPart([ok |-> TRUE, mp |-> multipartBuffer], ReaderParam))
    /\ UNCHANGED <<client, queryVals, headers, basicUser, basicPasswd,
                   beforeRequestHooks, afterResponseHooks, errorHooks, ctx>>
    /\ UNCHANGED call

Uploads ==
    /\ Configuring
    /\ writer' = EnsureWriter(writer)
    /\ \E files \in UploadsInputs : \E order \in Orders(DOMAIN files) :
         Uploaded(UploadEach([ok |-> TRUE, mp |-> multipartBuffer], files, order))
    /\ UNCHANGED <<client, queryVals, headers, basicUser, basicPasswd,
                   beforeRequestHooks, afterResponseHooks, errorHooks, ctx>>
    /\ UNCHANGED call

UploadsFromReader ==
    /\ Configuring
    /\ writer' = EnsureWriter(writer)
    /\ \E params \in ReaderLists :
         Uploaded(UploadEachReader([ok |-> TRUE, mp |-> multipartBuffer], params))
    /\ UNCHANGED <<client, queryVals, headers, basicUser, basicPasswd,
                   beforeRequestHooks, afterResponseHooks, errorHooks, ctx>>
    /\ UNCHANGED call

(***************************************************************************)
(* Hook registration and the context.                                      *)
(***************************************************************************)
OnBeforeRequest ==
    /\ Configuring
    /\ \E hook \in BeforeHooks :
         beforeRequestHooks' = Append(beforeRequestHooks, hook)
    /\ UNCHANGED <<pc, client, formVals, multipartBuffer, writer, queryVals,
                   headers, contentType, basicUser, basicPasswd,
                   afterResponseHooks, errorHooks, ctx, lastEnc>>
    /\ UNCHANGED call

OnAfterResponse ==
    /\ Configuring
    /\ \E hook \in AfterHooks :
         afterResponseHooks' = Append(afterResponseHooks, hook)
    /\ UNCHANGED <<pc, client, formVals, multipartBuffer, writer, queryVals,
                   headers, contentType, basicUser, basicPasswd,
                   beforeRequestHooks, errorHooks, ctx, lastEnc>>
    /\ UNCHANGED call

OnError ==
    /\ Configuring
    /\ \E errorHook \in ErrorHooks : errorHooks' = Append(errorHooks, errorHook)
    /\ UNCHANGED <<pc, client, formVals, multipartBuffer, writer, queryVals,
                   headers, contentType, basicUser, basicPasswd,
                   beforeRequestHooks, afterResponseHooks, ctx, lastEnc>>
    /\ UNCHANGED call

SetContext ==
    /\ Configuring
    /\ \E c \in Contexts : ctx' = c
    /\ UNCHANGED <<pc, client, formVals, multipartBuffer, writer, queryVals,
                   headers, contentType, basicUser, basicPasswd,
                   beforeRequestHooks, afterResponseHooks, errorHooks, lastEnc>>
    /\ UNCHANGED call

\* Context(): the context set, or context.Background()
Context == IF ctx = "nil" THEN "background" ELSE ctx

(***************************************************************************)
(* The verb methods: each evaluates req.formVals and enters makeRequest.   *)
(***************************************************************************)
EnterMakeRequest(method) ==
    /\ pc = "config"
    /\ \E u \in URLs : url' = u
    /\ verb' = method
    /\ payloads' = formVals
    /\ pc' = "before"
    /\ i' = 1
    /\ UNCHANGED <<calls, request, err, response, hookResp, result, log, lastEnc>>
    /\ UNCHANGED builder

Get == EnterMakeRequest("GET")

Post == EnterMakeRequest("POST")

Put == EnterMakeRequest("PUT")

Patch == EnterMakeRequest("PATCH")

Delete == EnterMakeRequest("DELETE")

\* Head (the name is taken by Sequences)
HeadRequest == EnterMakeRequest("HEAD")

Options == EnterMakeRequest("OPTIONS")

(***************************************************************************)
(* Hooks.  A hook is named by what it does.                                *)
(*   bNil  returns nil                  bErr  returns an error             *)
(*   bText calls req.Text("late") on the builder it is passed              *)
(*   aNil  returns nil                  aMut  assigns *r = Response{}      *)
(*   e1, e2  record the error                                              *)
(***************************************************************************)
BeforeHookReturn(hook) == IF hook = "bErr" THEN ErrHook ELSE "nil"

\* ExecuteBeforeRequestHooks as it would be if a hook's error ended the call.
ExecuteBeforeRequestHooks_StopOnError ==
    /\ pc = "before"
    /\ i <= Len(beforeRequestHooks)
    /\ LET hook == beforeRequestHooks[i]
       IN  /\ log' = Append(log, <<"before", hook>>)
           /\ IF hook = "bText"
              THEN /\ formVals' = EncText("late").formVals
                   /\ contentType' = EncText("late").contentType
                   /\ lastEnc' = EncText("late").enc
              ELSE UNCHANGED <<formVals, contentType, lastEnc>>
           /\ IF BeforeHookReturn(hook) # "nil"
              THEN /\ err' = BeforeHookReturn(hook)
                   /\ pc' = "errhooks"
                   /\ i' = 1
              ELSE /\ i' = i + 1
                   /\ UNCHANGED <<pc, err>>
    /\ UNCHANGED <<calls, client, multipartBuffer, writer, queryVals, headers,
                   basicUser, basicPasswd, beforeRequestHooks,
                   afterResponseHooks, errorHooks, ctx>>
    /\ UNCHANGED <<verb, url, payloads, request, response, hookResp, result>>

\* One iteration of ExecuteBeforeRequestHooks' loop: the hook runs on req, and
\* what it returns is dropped.
ExecuteBeforeRequestHooks ==
    /\ pc = "before"
    /\ i <= Len(beforeRequestHooks)
    /\ LET hook == beforeRequestHooks[i]
           dropped == BeforeHookReturn(hook)
       IN  /\ log' = Append(log, <<"before", hook>>)
           /\ IF hook = "bText"
              THEN /\ formVals' = EncText("late").formVals
                   /\ contentType' = EncText("late").contentType
                   /\ lastEnc' = EncText("late").enc
              ELSE UNCHANGED <<formVals, contentType, lastEnc>>
    /\ i' = i + 1
    /\ UNCHANGED <<pc, calls, client, multipartBuffer, writer, queryVals, headers,
                   basicUser, basicPasswd, beforeRequestHooks,
                   afterResponseHooks, errorHooks, ctx>>
    /\ UNCHANGED <<verb, url, payloads, request, err, response, hookResp, result>>

\* ExecuteOnErrorHooks as it would be if it ran the hooks last to first.
ExecuteOnErrorHooks_Reversed ==
    /\ pc = "errhooks"
    /\ i <= Len(errorHooks)
    /\ log' = Append(log, <<"error", errorHooks[Len(errorHooks) - i + 1], err>>)
    /\ i' = i + 1
    /\ UNCHANGED <<pc, calls, verb, url, payloads, request, err, response,
                   hookResp, result, lastEnc>>
    /\ UNCHANGED builder

\* One iteration of ExecuteOnErrorHooks' loop.
ExecuteOnErrorHooks ==
    /\ pc = "errhooks"
    /\ i <= Len(errorHooks)
    /\ log' = Append(log, <<"error", errorHooks[i], err>>)
    /\ i' = i + 1
    /\ UNCHANGED <<pc, calls, verb, url, payloads, request, err, response,
                   hookResp, result, lastEnc>>
    /\ UNCHANGED builder

\* One iteration of ExecuteAfterResponseHooks' loop: the hook gets the address
\* of the function's parameter, a copy of makeRequest's response.
ExecuteAfterResponseHooks ==
    /\ pc = "after"
    /\ i <= Len(afterResponseHooks)
    /\ LET hook == afterResponseHooks[i]
       IN  /\ log' = Append(log, <<"after", hook, hookResp.resp>>)
           /\ hookResp' = IF hook = "aMut" THEN NilResponse ELSE hookResp
    /\ i' = i + 1
    /\ UNCHANGED <<pc, calls, verb, url, payloads, request, err, response,
                   result, lastEnc>>
    /\ UNCHANGED builder

(***************************************************************************)
(* makeRequest between the before-request hooks and the later hooks.       *)
(***************************************************************************)
\* createClient: req.transport, req.timeout and req.cookie are the zero values
\* NewRequest() leaves.
createClient(c) ==
    IF c.made THEN c
    ELSE [made |-> TRUE, transport |-> "http.DefaultTransport", timeout |-> 0,
          jar |-> "nil"]

\* if req.writer != nil { req.writer.Close() }
ClosedBuffer(w, mp) == IF w # "nil" THEN mp \o Trailer ELSE mp

ClosedWriter(w) == IF w # "nil" THEN "closed" ELSE w

\* if req.queryVals != "" { url += "?" + req.queryVals }
TargetURL(u, q) == IF q # "" THEN u \o "?" \o q ELSE u

\* The bytes a buffer holds; the nil pointer is replaced by an empty buffer.
BufferBytes(p, mp) == IF p.ref = "mp" THEN mp ELSE p.bytes

\* RequestBody as it would be without the GET case.
RequestBody_NoGetCase(v, p, mp) == BufferBytes(p, mp)

\* The body http.NewRequest is given: nil for GET, payloads otherwise.
RequestBody(v, p, mp) == IF v = "GET" THEN "" ELSE BufferBytes(p, mp)

\* http.NewRequest: fails on a URL it cannot parse; the request's context is
\* context.Background().
NewHTTPRequest(v, target, body) ==
    [built |-> ParseURL(target).ok, method |-> v, url |-> target, body |-> body,
     header |-> EmptyMap, host |-> ParseURL(target).host, ctx |-> "background"]

\* HasBasicAuth as it would be with || for &&.
HasBasicAuth_Either(user, passwd) == user # "" \/ passwd # ""

\* if req.basicUser != "" && req.basicPasswd != ""
HasBasicAuth(user, passwd) == user # "" /\ passwd # ""

\* for key, val := range req.headers { request.Header.Set(key, val) }
RECURSIVE SetHeaders(_, _, _)
SetHeaders(h, headerVals, order) ==
    IF order = <<>> THEN h
    ELSE SetHeaders(HeaderSet(h, Head(order), headerVals[Head(order)]),
                    headerVals, Tail(order))

\* RequestHeader as it would be if the configured headers were applied before
\* the Content-Type and the basic auth.
RequestHeader_HeadersFirst(ct, user, passwd, headerVals, order) ==
    LET h0 == SetHeaders(EmptyMap, headerVals, order)
        h1 == HeaderSet(h0, "Content-Type", ct)
    IN  IF user # "" /\ passwd # "" THEN SetBasicAuth(h1, user, passwd) ELSE h1

\* The request's header once Content-Type, basic auth and the configured
\* headers are set.
RequestHeader(ct, user, passwd, headerVals, order) ==
    LET h1 == HeaderSet(EmptyMap, "Content-Type", ct)
        h2 == IF HasBasicAuth(user, passwd) THEN SetBasicAuth(h1, user, passwd)
              ELSE h1
    IN  SetHeaders(h2, headerVals, order)

\* if val, ok := req.headers["Host"]; ok { request.Host = val }
RequestHost(headerVals, host) ==
    IF "Host" \in DOMAIN headerVals THEN headerVals["Host"] ELSE host

\* ExecuteAfterResponseHooks(response): the argument is passed by value.
PassResponse(r) == r

\* ReturnedResponse as it would be if the hooks were given the wrapper itself.
ReturnedResponse_Shared(r, copy) == copy

\* return &response, nil
ReturnedResponse(r, copy) == r

makeRequest ==
    /\ pc = "before"
    /\ i > Len(beforeRequestHooks)
    /\ client' = createClient(client)
    /\ multipartBuffer' = ClosedBuffer(writer, multipartBuffer)
    /\ writer' = ClosedWriter(writer)
    /\ LET v == ToUpper(verb)
           target == TargetURL(url, queryVals)
           new == NewHTTPRequest(v, target,
                                 RequestBody(v, payloads, multipartBuffer'))
       IN  IF ~new.built
           THEN /\ request' = NoRequest
                /\ err' = ErrParse
                /\ pc' = "errhooks"
                /\ UNCHANGED <<response, hookResp, log>>
           ELSE \E order \in Orders(DOMAIN headers) : \E net \in NetOutcomes :
                  LET r == [new EXCEPT
                              !.header = RequestHeader(contentType, basicUser,
                                                       basicPasswd, headers, order),
                              !.host = RequestHost(headers, new.host)]
                      got == ClientDo(r, net)
                  IN  /\ request' = r
                      /\ log' = Append(log, <<"do">>)
                      /\ err' = got.err
                      /\ IF got.err # "nil"
                         THEN /\ pc' = "errhooks"
                              /\ UNCHANGED <<response, hookResp>>
                         ELSE /\ pc' = "after"
                              /\ response' = [resp |-> got.resp]
                              /\ hookResp' = PassResponse(response')
    /\ i' = 1
    /\ UNCHANGED <<calls, formVals, queryVals, headers, contentType, basicUser,
                   basicPasswd, beforeRequestHooks, afterResponseHooks,
                   errorHooks, ctx, verb, url, payloads, result, lastEnc>>

\* ReturnError as it would be if the return after the error hooks were missing.
ReturnError_FallThrough ==
    /\ pc = "errhooks"
    /\ i > Len(errorHooks)
    /\ pc' = "after"
    /\ i' = 1
    /\ hookResp' = response
    /\ UNCHANGED <<calls, verb, url, payloads, request, err, response, result,
                   log, lastEnc>>
    /\ UNCHANGED builder

\* return nil, err
ReturnError ==
    /\ pc = "errhooks"
    /\ i > Len(errorHooks)
    /\ result' = [returned |-> TRUE, isNil |-> TRUE, resp |-> NilResponse,
                  err |-> err]
    /\ pc' = "done"
    /\ UNCHANGED <<calls, verb, url, payloads, i, request, err, response,
                   hookResp, log, lastEnc>>
    /\ UNCHANGED builder

\* return &response, nil
ReturnResponse ==
    /\ pc = "after"
    /\ i > Len(afterResponseHooks)
    /\ result' = [returned |-> TRUE, isNil |-> FALSE,
                  resp |-> ReturnedResponse(response, hookResp), err |-> "nil"]
    /\ pc' = "done"
    /\ UNCHANGED <<calls, verb, url, payloads, i, request, err, response,
                   hookResp, log, lastEnc>>
    /\ UNCHANGED builder

\* NewRequest(): the caller builds its next request on a new builder.
NewRequest ==
    /\ pc = "done"
    /\ pc' = "config"
    /\ calls' = 0
    /\ client' = NoClient
    /\ formVals' = NilBuffer
    /\ multipartBuffer' = ""
    /\ writer' = "nil"
    /\ queryVals' = ""
    /\ headers' = EmptyMap
    /\ contentType' = ""
    /\ basicUser' = ""
    /\ basicPasswd' = ""
    /\ beforeRequestHooks' = <<>>
    /\ afterResponseHooks' = <<>>
    /\ errorHooks' = <<>>
    /\ ctx' = "nil"
    /\ verb' = ""
    /\ url' = ""
    /\ payloads' = NilBuffer
    /\ i' = 0
    /\ request' = NoRequest
    /\ err' = "nil"
    /\ response' = NilResponse
    /\ hookResp' = NilResponse
    /\ result' = NoResult
    /\ log' = <<>>
    /\ lastEnc' = NoEnc

Next ==
    \/ JSON \/ FormData \/ Body \/ Text \/ Query \/ Headers \/ BasicAuth
    \/ MultipartFormData \/ Upload \/ UploadFromReader \/ Uploads
    \/ UploadsFromReader
    \/ OnBeforeRequest \/ OnAfterResponse \/ OnError \/ SetContext
    \/ Get \/ Post \/ Put \/ Patch \/ Delete \/ HeadRequest \/ Options
    \/ ExecuteBeforeRequestHooks \/ makeRequest
    \/ ExecuteOnErrorHooks \/ ExecuteAfterResponseHooks
    \/ ReturnError \/ ReturnResponse
    \/ NewRequest

Spec == Init /\ [][Next]_vars

(***************************************************************************)
(* Claims.                                                                 *)
(***************************************************************************)
Range(f) == {f[k] : k \in DOMAIN f}

\* The hooks of one kind the log shows, in the order they ran.
Ran(kind) ==
    LET es == SelectSeq(log, LAMBDA e : e[1] = kind)
    IN  [k \in DOMAIN es |-> es[k][2]]

\* Whether a header map sets the header named c, under any spelling.
Sets(headerVals, c) ==
    \E k \in DOMAIN headerVals : CanonicalMIMEHeaderKey(k) = c

\* No two keys of the map name the same header.
DistinctHeaders(headerVals) ==
    \A k1, k2 \in DOMAIN headerVals :
        CanonicalMIMEHeaderKey(k1) = CanonicalMIMEHeaderKey(k2) => k1 = k2

\* C1 as stated: the request handed to the client carries every key of the
\* map given to Headers with the map's value, whatever the body encoder's
\* content type and basic auth had set.
C1_EveryHeaderCarried ==
    request.built =>
        \A k \in DOMAIN headers : HeaderGet(request.header, k) = headers[k]

\* C1 amended: the same, for a map no two keys of which name the same header
\* (keys that differ only in case name one header, and one of the two values
\* is sent).
C1_DistinctHeadersCarried ==
    (request.built /\ DistinctHeaders(headers)) =>
        \A k \in DOMAIN headers : HeaderGet(request.header, k) = headers[k]

\* C1 witness: a JSON body was encoded, Headers gave another Content-Type, and
\* the request was built.
C1_Witness ==
    /\ request.built
    /\ lastEnc.method = "JSON"
    /\ contentType = "application/json"
    /\ headers = ("Content-Type" :> "application/xml")

\* C2 as stated: the body and the Content-Type a non-GET verb sends are those
\* of the most recently called body-encoding method.  (Stated for a builder
\* with no before-request hook and no Content-Type given to Headers.)
C2_LastEncoderWins ==
    ( /\ request.built
      /\ request.method # "GET"
      /\ beforeRequestHooks = <<>>
      /\ ~Sets(headers, "Content-Type")
      /\ lastEnc.method # "none" ) =>
        /\ request.body = IF lastEnc.method = "multipart" THEN multipartBuffer
                          ELSE lastEnc.bytes
        /\ HeaderGet(request.header, "Content-Type") = lastEnc.ct

\* C3: Get sends an empty body whatever was encoded; every other verb sends
\* the bytes of the buffer the verb method passed on (req.formVals at the call
\* when no hook replaces it), and an empty body when no encoder was called.
C3_GetDropsBody ==
    request.built =>
        /\ request.method = "GET" => request.body = ""
        /\ request.method # "GET" =>
              /\ payloads.ref = "nil" => request.body = ""
              /\ payloads.ref = "buf" => request.body = payloads.bytes
              /\ payloads.ref = "mp" => request.body = multipartBuffer
              /\ "bText" \notin Range(beforeRequestHooks) => payloads = formVals
              /\ lastEnc.method = "none" => request.body = ""

\* C3 witness: a Get call built its request after a body encoder had run.
C3_Witness ==
    /\ request.built
    /\ request.method = "GET"
    /\ payloads.ref = "buf"
    /\ payloads.bytes # ""

\* C4: a failed verb call returns a nil Response and a non-nil error, and by
\* then every registered error hook has run exactly once, in registration
\* order, with that error.
C4_ErrorHooksOnFailure ==
    (pc = "done" /\ (result.err # "nil" \/ ~request.built \/ err # "nil")) =>
        /\ result.isNil
        /\ result.err # "nil"
        /\ SelectSeq(log, LAMBDA e : e[1] = "error")
             = [k \in DOMAIN errorHooks |-> <<"error", errorHooks[k], result.err>>]

\* C4 witness: the exchange failed with two different error hooks registered.
C4_Witness ==
    /\ pc = "done"
    /\ result.err = ErrDial
    /\ errorHooks = <<"e2", "e1">>

\* C5: the before-request hooks run once each, in registration order, all of
\* them before the request is handed to the client; a hook's error stops
\* neither the later hooks nor the exchange and is not what the call returns.
C5_BeforeHooksFirst ==
    LET expected == [k \in DOMAIN beforeRequestHooks |->
                        <<"before", beforeRequestHooks[k]>>]
    IN  /\ pc = "before" => log = SubSeq(expected, 1, i - 1)
        /\ pc \in {"after", "errhooks", "done"} =>
              /\ Len(log) >= Len(expected)
              /\ SubSeq(log, 1, Len(expected)) = expected
              /\ Ran("before") = beforeRequestHooks
        /\ pc = "done" =>
              /\ result.err # ErrHook
              /\ url = GoodURL => <<"do">> \in Range(log)

\* C5 witness: a call succeeded although its first hook returned an error, and
\* the hook registered after it ran too.
C5_Witness ==
    /\ pc = "done"
    /\ beforeRequestHooks = <<"bErr", "bNil">>
    /\ result.err = "nil"

\* C6 as stated: with a cancelled context attached by SetContext, the verb
\* call ends with a cancellation error.
C6_CancellationHonoured ==
    (pc = "done" /\ ctx = "cancelled" /\ request.built) =>
        /\ result.isNil
        /\ result.err = ErrCanceled

\* C7: the request carries the basic-auth Authorization header exactly when
\* both stored credentials are non-empty and Headers set no Authorization;
\* with an empty credential dispatch sets no Authorization header of its own.
C7_BasicAuthWhenBoth ==
    request.built =>
        IF Sets(headers, "Authorization")
        THEN \E k \in DOMAIN headers :
                HeaderGet(request.header, "Authorization") = headers[k]
        ELSE IF basicUser # "" /\ basicPasswd # ""
        THEN HeaderGet(request.header, "Authorization")
                = "Basic " \o Base64(basicUser, basicPasswd)
        ELSE "Authorization" \notin DOMAIN request.header

\* C7 witness: BasicAuth("u", "p") and no Authorization from Headers.
C7_Witness ==
    /\ request.built
    /\ basicUser = "u"
    /\ basicPasswd = "p"
    /\ ~Sets(headers, "Authorization")
    /\ HeaderGet(request.header, "Authorization") = "Basic dTpw"

\* C8: on success the after-response hooks run in registration order on a copy
\* of the wrapper; what a hook assigns to it does not show in the Response
\* returned, which is the original wrapper with the client's response.
C8_HooksGetACopy ==
    /\ pc = "after" => response.resp = "200 OK"
    /\ (pc = "done" /\ result.err = "nil") =>
          /\ ~result.isNil
          /\ result.resp = response
          /\ result.resp.resp = "200 OK"
          /\ Ran("after") = afterResponseHooks
          /\ afterResponseHooks # <<>> =>
                SelectSeq(log, LAMBDA e : e[1] = "after")[1][3] = "200 OK"

\* C8 witness: a call succeeded after a hook had overwritten its copy.
C8_Witness ==
    /\ pc = "done"
    /\ result.err = "nil"
    /\ "aMut" \in Range(afterResponseHooks)
    /\ hookResp # result.resp

\* C9: a verb call ends with a Response, no error, all after-response hooks
\* run and no error hook run, or with no Response, an error, all error hooks
\* run and no after-response hook run; the two kinds never both run, and
\* neither runs before the before-request hooks have finished.
C9_OneOutcome ==
    /\ pc = "done" =>
          \/ /\ ~result.isNil
             /\ result.err = "nil"
             /\ Ran("after") = afterResponseHooks
             /\ Ran("error") = <<>>
          \/ /\ result.isNil
             /\ result.err # "nil"
             /\ Ran("error") = errorHooks
             /\ Ran("after") = <<>>
    /\ Ran("after") = <<>> \/ Ran("error") = <<>>
    /\ \A k \in DOMAIN log :
          log[k][1] \in {"after", "error"} =>
              /\ pc # "before"
              /\ k > Len(beforeRequestHooks)
              /\ \A j \in 1..Len(beforeRequestHooks) : log[j][1] = "before"

\* C9 witness: a failed call with a hook of each kind registered.
C9_Witness ==
    /\ pc = "done"
    /\ result.err # "nil"
    /\ beforeRequestHooks # <<>>
    /\ afterResponseHooks # <<>>
    /\ errorHooks # <<>>

\* C10 as stated: when a before-request hook calls a body encoder on the
\* builder, a non-GET verb sends the body and the Content-Type of that call.
\* (Stated for a builder with no Content-Type given to Headers.)
C10_HookEncoderSent ==
    ( /\ request.built
      /\ request.method # "GET"
      /\ "bText" \in Range(beforeRequestHooks)
      /\ ~Sets(headers, "Content-Type") ) =>
        /\ request.body = lastEnc.bytes
        /\ HeaderGet(request.header, "Content-Type") = lastEnc.ct

====
